---- MODULE Spec2Model ----
(***************************************************************************)
(* A model of ppt_generator_server.py: the PresentationBuilder class and   *)
(* the /generate-ppt request handler.                                      *)
(*                                                                         *)
(* A string is a sequence of one-character strings.  A presentation is a   *)
(* sequence of slides; a slide is its layout (the sequence of placeholder  *)
(* indices the layout provides) and its shape tree (a sequence of shapes). *)
(* A shape is a record: kind, idx (placeholder index, -1 when the shape is *)
(* no placeholder), name, and paras, the paragraphs of its text frame.     *)
(***************************************************************************)
EXTENDS Integers, Sequences, FiniteSets, TLC

VARIABLES
    req,        \* the multipart request: its 'template' and 'content' parts
    hpc,        \* position of generate_ppt
    tmpdir,     \* "none", "live" or "released": the TemporaryDirectory
    files,      \* names of the files present in the temporary directory
    response,   \* the value generate_ppt returns: [status, body]
    sent,       \* the server has written the response to the client
    raised,     \* the exception propagating out of the handler, or "none"
    builder,    \* TRUE once PresentationBuilder.__init__ has returned
    template,   \* the template document as opened: a sequence of slides
    prs,        \* self.prs: the document being built
    outline,    \* content_dict: a sequence of [name, slides] sections
    sec,        \* build_from_content: index of the current section
    pos,        \* build_from_content: index of the next descriptor, 0 = header
    errors,     \* the keys reported by "[ERROR] Missing key in slide data"
    title,      \* add_content_slide called directly: the title argument
    content,    \* add_content_slide called directly: the content argument
    pc          \* position of the caller of the builder's methods

vars == <<req, hpc, tmpdir, files, response, sent, raised, builder, template,
          prs, outline, sec, pos, errors, title, content, pc>>

-----------------------------------------------------------------------------
(* Bounds of the model *)

MaxSections == 2
MaxDescriptors == 3
MaxTemplateSlides == 2
MaxContentLen == 4
MaxTitleLen == 203
MaxCalls == 2
MaxBaseShapes == 2

-----------------------------------------------------------------------------
(* Strings *)

NL == "\n"

\* the characters str.strip() removes that the model's alphabets contain
Whitespace == {" ", "\t", "\r", NL}

Take(s, n) == SubSeq(s, 1, IF n < Len(s) THEN n ELSE Len(s))

Drop(s, n) == SubSeq(s, n + 1, Len(s))

RECURSIVE LStrip(_)
LStrip(s) ==
    IF s # <<>> /\ Head(s) \in Whitespace THEN LStrip(Tail(s)) ELSE s

RECURSIVE RStrip(_)
RStrip(s) ==
    IF s # <<>> /\ s[Len(s)] \in Whitespace
    THEN RStrip(SubSeq(s, 1, Len(s) - 1))
    ELSE s

\* str.strip()
Strip(s) == RStrip(LStrip(s))

\* str.find(sep) + 1: the position of the first sep in s, 0 when there is none
FindChar(s, sep) ==
    LET hits == {i \in 1..Len(s) : s[i] = sep}
    IN  IF hits = {} THEN 0
        ELSE CHOOSE i \in hits : \A k \in hits : i <= k

\* str.split(sep): always at least one piece
RECURSIVE Split(_, _)
Split(s, sep) ==
    LET i == FindChar(s, sep)
    IN  IF i = 0 THEN <<s>>
        ELSE <<Take(s, i - 1)>> \o Split(Drop(s, i), sep)

\* sep.join(pieces)
RECURSIVE Join(_, _)
Join(pieces, sep) ==
    IF pieces = <<>> THEN <<>>
    ELSE IF Len(pieces) = 1 THEN pieces[1]
    ELSE pieces[1] \o <<sep>> \o Join(Tail(pieces), sep)

-----------------------------------------------------------------------------
(* Shapes, slides and text frames *)

Placeholder(i) ==
    [kind |-> "placeholder", idx |-> i, name |-> "layout", paras |-> << <<>> >>]

Decoration(k, n) == [kind |-> k, idx |-> -1, name |-> n, paras |-> <<>>]

is_placeholder(shape) == shape.kind = "placeholder"

\* TextFrame.text = s: one paragraph per "\n"-separated piece of s
SetText(shape, s) == [shape EXCEPT !.paras = Split(s, NL)]

\* TextFrame.text: the paragraphs' texts joined by "\n"
Text(shape) == Join(shape.paras, NL)

\* content_frame.clear(): a text frame always keeps one paragraph, which
\* clear() empties; the other paragraphs are removed
TextFrameClear(shape) == [shape EXCEPT !.paras = << <<>> >>]

\* content_frame.add_paragraph() followed by p.text = line
AddParagraph(shape, line) == [shape EXCEPT !.paras = Append(@, line)]

\* prs.slides.add_slide(slide_layout): the new slide holds one empty
\* placeholder per placeholder of the layout, in the layout's order
NewSlide(layout) ==
    [layout |-> layout,
     shapes |-> [i \in 1..Len(layout) |-> Placeholder(layout[i])]]

-----------------------------------------------------------------------------
(* PresentationBuilder *)

TitleLimit == 200
TitleKeep == 197
Ellipsis == <<".", ".", ".">>

base_slide(p) == p[1]

\* mutant of Copied: the placeholder test is forgotten
Copied_any(shape) == shape.kind # "group"

\* the loop of duplicate_base_slide: which shapes of the base slide are copied
Copied(shape) == shape.kind # "group" /\ ~is_placeholder(shape)

RECURSIVE CopyShapes(_, _)
CopyShapes(shapes, tree) ==
    IF shapes = <<>> THEN tree
    ELSE CopyShapes(Tail(shapes),
                    IF Copied(Head(shapes)) THEN Append(tree, Head(shapes))
                    ELSE tree)

\* mutant of duplicate_base_slide: the new slide is put right after the base
\* slide instead of at the end of the document
duplicate_base_slide_insert(p) ==
    <<p[1], [NewSlide(p[1].layout) EXCEPT
                !.shapes = CopyShapes(p[1].shapes, @)]>> \o Tail(p)

\* duplicate_base_slide: the document with the new slide appended
duplicate_base_slide(p) ==
    LET slide_layout == base_slide(p).layout
        new_slide == NewSlide(slide_layout)
    IN  Append(p, [new_slide EXCEPT
                     !.shapes = CopyShapes(base_slide(p).shapes, @)])

\* the placeholder scan of add_content_slide: the index in the shape tree of
\* the last placeholder whose idx is 0 (0 = None)
RECURSIVE title_placeholder(_, _, _)
title_placeholder(shapes, i, found) ==
    IF i > Len(shapes) THEN found
    ELSE title_placeholder(shapes, i + 1,
            IF is_placeholder(shapes[i]) /\ shapes[i].idx = 0 THEN i ELSE found)

\* mutant of content_placeholder: the first such placeholder wins
RECURSIVE content_placeholder_first(_, _, _)
content_placeholder_first(shapes, i, found) ==
    IF i > Len(shapes) THEN found
    ELSE content_placeholder_first(shapes, i + 1,
            IF is_placeholder(shapes[i]) /\ shapes[i].idx # 0 /\ found = 0
            THEN i ELSE found)

\* ... and of the last placeholder whose idx is not 0 (0 = None)
RECURSIVE content_placeholder(_, _, _)
content_placeholder(shapes, i, found) ==
    IF i > Len(shapes) THEN found
    ELSE content_placeholder(shapes, i + 1,
            IF is_placeholder(shapes[i]) /\ shapes[i].idx # 0 THEN i ELSE found)

truncated_title(t) ==
    IF Len(t) < TitleLimit THEN t ELSE Take(t, TitleKeep) \o Ellipsis

\* mutant of FillLines: blank lines are not skipped
RECURSIVE FillLines_blank(_, _)
FillLines_blank(shape, lines) ==
    IF lines = <<>> THEN shape
    ELSE FillLines_blank(AddParagraph(shape, Strip(Head(lines))), Tail(lines))

\* the for loop over content.strip().split('\n')
RECURSIVE FillLines(_, _)
FillLines(shape, lines) ==
    IF lines = <<>> THEN shape
    ELSE LET clean_line == Strip(Head(lines))
         IN  FillLines(IF clean_line = <<>> THEN shape
                       ELSE AddParagraph(shape, clean_line),
                       Tail(lines))

FillBody(shape, c) == FillLines(TextFrameClear(shape), Split(Strip(c), NL))

\* add_content_slide(title, content): the document afterwards
add_content_slide(p, t, c) ==
    LET q == duplicate_base_slide(p)
        n == Len(q)
        shapes == q[n].shapes
        tp == title_placeholder(shapes, 1, 0)
        cp == content_placeholder(shapes, 1, 0)
        withTitle ==
            IF tp # 0
            THEN [shapes EXCEPT ![tp] = SetText(@, truncated_title(t))]
            ELSE shapes
        withBody ==
            IF cp # 0
            THEN [withTitle EXCEPT ![cp] = FillBody(@, c)]
            ELSE withTitle
    IN  [q EXCEPT ![n].shapes = withBody]

\* the body of the inner loop of build_from_content: the key lookups raise
\* KeyError before add_content_slide is entered, and the except clause only
\* logs, so the document is left as it was
has_keys(slide_data) ==
    "title" \in DOMAIN slide_data /\ "content" \in DOMAIN slide_data

\* mutant of try_add_slide: the slide is duplicated before the keys are looked up
try_add_slide_partial(p, slide_data) ==
    IF has_keys(slide_data)
    THEN add_content_slide(p, slide_data.title, slide_data.content)
    ELSE duplicate_base_slide(p)

try_add_slide(p, slide_data) ==
    IF has_keys(slide_data)
    THEN add_content_slide(p, slide_data.title, slide_data.content)
    ELSE p

\* the key the KeyError names: 'title' is looked up first
missing_key(slide_data) ==
    IF "title" \notin DOMAIN slide_data THEN "title" ELSE "content"

-----------------------------------------------------------------------------
(* Inputs: templates *)

BaseTitle == [kind |-> "placeholder", idx |-> 0, name |-> "base",
              paras |-> << <<"U", "n", "i">> >>]

BaseBody == [kind |-> "placeholder", idx |-> 1, name |-> "base",
             paras |-> << <<"i", "n", "f", "o">>, <<>> >>]

Logo == Decoration("picture", "logo")
Banner == Decoration("autoshape", "banner")
Crest == Decoration("group", "crest")

StdLayout == <<0, 1>>

StdBase == [layout |-> StdLayout,
            shapes |-> <<BaseTitle, Logo, Crest, BaseBody, Banner>>]

Filler == [layout |-> <<0>>, shapes |-> <<BaseTitle, Banner>>]

\* a template document of n slides whose first slide is the base slide
TemplateDoc(n) == [i \in 1..n |-> IF i = 1 THEN StdBase ELSE Filler]

TemplateParts ==
    {[kind |-> "absent", doc |-> <<>>], [kind |-> "malformed", doc |-> <<>>]}
    \cup {[kind |-> "pptx", doc |-> TemplateDoc(n)] : n \in 0..MaxTemplateSlides}

-----------------------------------------------------------------------------
(* Inputs: content outlines *)

Digit(i) == <<"0", "1", "2", "3", "4", "5", "6", "7", "8", "9">>[i + 1]

SectionName(i) == <<"S", Digit(i)>>

SlideTitle(i, j) == <<"t", Digit(i), Digit(j)>>

SlideBody(j) ==
    IF j % 2 = 1 THEN <<"a", NL, " ", NL, " ", "b", " ">> ELSE <<" ", NL>>

DescriptorKinds == {"ok", "no_title", "no_content"}

Descriptor(i, j, kind) ==
    CASE kind = "ok" -> [title |-> SlideTitle(i, j), content |-> SlideBody(j)]
      [] kind = "no_title" -> [content |-> SlideBody(j)]
      [] kind = "no_content" -> [title |-> SlideTitle(i, j)]

RECURSIVE SumTo(_, _)
SumTo(ks, n) == IF n = 0 THEN 0 ELSE ks[n] + SumTo(ks, n - 1)

\* the numbers of descriptors of the sections: at most MaxSections sections
\* and at most MaxDescriptors descriptors in the whole outline
SectionSizes ==
    UNION {{ks \in [1..s -> 0..MaxDescriptors] : SumTo(ks, s) <= MaxDescriptors}
           : s \in 0..MaxSections}

MkOutline(ks, kinds) ==
    [i \in 1..Len(ks) |->
        [name |-> SectionName(i),
         slides |-> [j \in 1..ks[i] |->
                        Descriptor(i, j, kinds[SumTo(ks, i - 1) + j])]]]

Outlines ==
    UNION {{MkOutline(ks, kinds) :
                kinds \in [1..SumTo(ks, Len(ks)) -> DescriptorKinds]}
           : ks \in SectionSizes}

ContentParts ==
    {[kind |-> k, value |-> <<>>] :
        k \in {"absent", "bad_utf8", "bad_json", "json_array"}}
    \cup {[kind |-> "json_object", value |-> o] : o \in Outlines}

NoResponse == [status |-> 0, body |-> "none"]

-----------------------------------------------------------------------------
(* generate_ppt: one action per position of the handler *)

Raise(e) ==
    /\ raised' = e
    /\ hpc' = "exit_with"

\* mutant of CheckParts: the request is refused only when both parts are absent
CheckParts_and ==
    /\ hpc = "request"
    /\ IF req.template.kind = "absent" /\ req.content.kind = "absent"
       THEN /\ response' = [status |-> 400, body |-> "error_json"]
            /\ hpc' = "respond"
       ELSE /\ hpc' = "enter_with"
            /\ UNCHANGED response
    /\ UNCHANGED <<req, tmpdir, files, sent, raised, builder, template, prs,
                   outline, sec, pos, errors, title, content, pc>>

\* lines 83-87: the presence check
CheckParts ==
    /\ hpc = "request"
    /\ IF req.template.kind = "absent" \/ req.content.kind = "absent"
       THEN /\ response' = [status |-> 400, body |-> "error_json"]
            /\ hpc' = "respond"
       ELSE /\ hpc' = "enter_with"
            /\ UNCHANGED response
    /\ UNCHANGED <<req, tmpdir, files, sent, raised, builder, template, prs,
                   outline, sec, pos, errors, title, content, pc>>

\* line 89: with tempfile.TemporaryDirectory() as tmpdir
EnterWith ==
    /\ hpc = "enter_with"
    /\ tmpdir' = "live"
    /\ hpc' = "save_uploads"
    /\ UNCHANGED <<req, files, response, sent, raised, builder, template, prs,
                   outline, sec, pos, errors, title, content, pc>>

\* lines 96-97
SaveUploads ==
    /\ hpc = "save_uploads"
    /\ files' = files \cup {"template.pptx", "content.json"}
    /\ hpc' = "read_json"
    /\ UNCHANGED <<req, tmpdir, response, sent, raised, builder, template, prs,
                   outline, sec, pos, errors, title, content, pc>>

\* lines 100-105: the file is decoded as UTF-8 and parsed; only
\* json.JSONDecodeError is caught
ReadJson ==
    /\ hpc = "read_json"
    /\ CASE req.content.kind = "bad_utf8" ->
              /\ Raise("UnicodeDecodeError")
              /\ UNCHANGED <<response, outline>>
         [] req.content.kind = "bad_json" ->
              /\ response' = [status |-> 400, body |-> "error_json"]
              /\ hpc' = "exit_with"
              /\ UNCHANGED <<raised, outline>>
         [] OTHER ->
              /\ outline' = req.content.value
              /\ hpc' = "init_builder"
              /\ UNCHANGED <<response, raised>>
    /\ UNCHANGED <<req, tmpdir, files, sent, builder, template, prs, sec, pos,
                   errors, title, content, pc>>

\* line 108 and __init__, lines 14-18
InitBuilder ==
    /\ hpc = "init_builder"
    /\ CASE req.template.kind = "malformed" ->
              /\ Raise("PackageNotFoundError")
              /\ UNCHANGED <<builder, template, prs, sec, pos>>
         [] req.template.doc = <<>> ->
              /\ Raise("IndexError")
              /\ UNCHANGED <<builder, template, prs, sec, pos>>
         [] OTHER ->
              /\ prs' = req.template.doc
              /\ template' = req.template.doc
              /\ builder' = TRUE
              /\ sec' = 1
              /\ pos' = 0
              /\ hpc' = "build"
              /\ UNCHANGED raised
    /\ UNCHANGED <<req, tmpdir, files, response, sent, outline, errors, title,
                   content, pc>>

\* line 65 on a JSON value that has no items()
BuildNotMapping ==
    /\ hpc = "build"
    /\ req.content.kind = "json_array"
    /\ Raise("AttributeError")
    /\ UNCHANGED <<req, tmpdir, files, response, sent, builder, template, prs,
                   outline, sec, pos, errors, title, content, pc>>

Building == hpc = "build" /\ req.content.kind = "json_object"

\* line 67: the section-header slide
SectionHeader ==
    /\ Building
    /\ sec <= Len(outline)
    /\ pos = 0
    /\ prs' = add_content_slide(prs, outline[sec].name, <<>>)
    /\ pos' = 1
    /\ UNCHANGED <<req, hpc, tmpdir, files, response, sent, raised, builder,
                   template, outline, sec, errors, title, content, pc>>

\* mutant of DescriptorSlide: the try encloses the inner loop, so the first
\* KeyError ends the section
DescriptorSlide_abort ==
    /\ hpc = "build" /\ req.content.kind = "json_object"
    /\ sec <= Len(outline)
    /\ pos >= 1
    /\ pos <= Len(outline[sec].slides)
    /\ LET slide_data == outline[sec].slides[pos]
       IN  /\ prs' = try_add_slide(prs, slide_data)
           /\ errors' = IF has_keys(slide_data) THEN errors
                        ELSE Append(errors, missing_key(slide_data))
           /\ pos' = IF has_keys(slide_data) THEN pos + 1
                     ELSE Len(outline[sec].slides) + 1
    /\ UNCHANGED <<req, hpc, tmpdir, files, response, sent, raised, builder,
                   template, outline, sec, title, content, pc>>

\* lines 68-72: one descriptor of the current section
DescriptorSlide ==
    /\ Building
    /\ sec <= Len(outline)
    /\ pos >= 1
    /\ pos <= Len(outline[sec].slides)
    /\ LET slide_data == outline[sec].slides[pos]
       IN  /\ prs' = try_add_slide(prs, slide_data)
           /\ errors' = IF has_keys(slide_data) THEN errors
                        ELSE Append(errors, missing_key(slide_data))
    /\ pos' = pos + 1
    /\ UNCHANGED <<req, hpc, tmpdir, files, response, sent, raised, builder,
                   template, outline, sec, title, content, pc>>

\* line 65: the inner loop is exhausted, the outer loop advances
NextSection ==
    /\ Building
    /\ sec <= Len(outline)
    /\ pos > Len(outline[sec].slides)
    /\ sec' = sec + 1
    /\ pos' = 0
    /\ UNCHANGED <<req, hpc, tmpdir, files, response, sent, raised, builder,
                   template, prs, outline, errors, title, content, pc>>

\* line 73 and line 110: the build is complete and the document is saved
BuildCompleteAndSave ==
    /\ Building
    /\ sec > Len(outline)
    /\ files' = files \cup {"output.pptx"}
    /\ hpc' = "send_file"
    /\ UNCHANGED <<req, tmpdir, response, sent, raised, builder, template, prs,
                   outline, sec, pos, errors, title, content, pc>>

\* line 113: send_file opens the output file and builds the response object
SendFile ==
    /\ hpc = "send_file"
    /\ response' = [status |-> 200, body |-> "attachment"]
    /\ hpc' = "exit_with"
    /\ UNCHANGED <<req, tmpdir, files, sent, raised, builder, template, prs,
                   outline, sec, pos, errors, title, content, pc>>

\* the with block is left, by return or by an exception: the directory and
\* everything in it is removed
ExitWith ==
    /\ hpc = "exit_with"
    /\ tmpdir' = "released"
    /\ files' = {}
    /\ hpc' = "respond"
    /\ UNCHANGED <<req, response, sent, raised, builder, template, prs,
                   outline, sec, pos, errors, title, content, pc>>

\* the handler has returned (or raised): the server writes the response,
\* a server error for an exception no handler caught
Respond ==
    /\ hpc = "respond"
    /\ response' = IF raised # "none"
                   THEN [status |-> 500, body |-> "server_error"]
                   ELSE response
    /\ sent' = TRUE
    /\ hpc' = "done"
    /\ UNCHANGED <<req, tmpdir, files, raised, builder, template, prs, outline,
                   sec, pos, errors, title, content, pc>>

Init ==
    /\ req \in [template : TemplateParts, content : ContentParts]
    /\ hpc = "request"
    /\ tmpdir = "none"
    /\ files = {}
    /\ response = NoResponse
    /\ sent = FALSE
    /\ raised = "none"
    /\ builder = FALSE
    /\ template = <<>>
    /\ prs = <<>>
    /\ outline = <<>>
    /\ sec = 0
    /\ pos = 0
    /\ errors = <<>>
    /\ title = <<>>
    /\ content = <<>>
    /\ pc = "handler"

Next ==
    \/ CheckParts
    \/ EnterWith
    \/ SaveUploads
    \/ ReadJson
    \/ InitBuilder
    \/ BuildNotMapping
    \/ SectionHeader
    \/ DescriptorSlide
    \/ NextSection
    \/ BuildCompleteAndSave
    \/ SendFile
    \/ ExitWith
    \/ Respond

Spec == Init /\ [][Next]_vars

-----------------------------------------------------------------------------
(* Properties of build_from_content, checked under Spec *)

\* build_from_content has returned
BuildDone ==
    /\ builder
    /\ req.content.kind = "json_object"
    /\ hpc \in {"send_file", "exit_with", "respond", "done"}

\* the slides added to the document since the template was opened
Appended == SubSeq(prs, Len(template) + 1, Len(prs))

WellFormed(slides) == SelectSeq(slides, has_keys)

IsFaulty(slide_data) == ~has_keys(slide_data)

Faulty(slides) == SelectSeq(slides, IsFaulty)

RECURSIVE SumAllDescriptors(_)
SumAllDescriptors(o) ==
    IF o = <<>> THEN 0
    ELSE 1 + Len(Head(o).slides) + SumAllDescriptors(Tail(o))

RECURSIVE SumWellFormed(_)
SumWellFormed(o) ==
    IF o = <<>> THEN 0
    ELSE 1 + Len(WellFormed(Head(o).slides)) + SumWellFormed(Tail(o))

RECURSIVE CountFaulty(_)
CountFaulty(o) ==
    IF o = <<>> THEN 0
    ELSE Len(Faulty(Head(o).slides)) + CountFaulty(Tail(o))

\* C1 as stated: after build_from_content the document holds the template's
\* slides plus, per section, one slide and one more for every descriptor of
\* the section's list.
C1_CountsEveryDescriptor ==
    BuildDone => Len(prs) = Len(template) + SumAllDescriptors(outline)

\* C1 as amended: after build_from_content the document holds the template's
\* slides plus, per section, one slide and one more for every descriptor of
\* the section's list that has both the key 'title' and the key 'content'.
C1_SlideCount ==
    BuildDone => Len(prs) = Len(template) + SumWellFormed(outline)

C1_Witness ==
    /\ BuildDone
    /\ Len(template) = 1
    /\ Len(outline) = 2
    /\ CountFaulty(outline) = 1
    /\ Len(prs) = 1 + 2 + 2

\* the outline without its faulty descriptors
WithoutFaulty(o) ==
    [i \in 1..Len(o) |-> [o[i] EXCEPT !.slides = WellFormed(@)]]

\* the calls of add_content_slide an outline of well-formed descriptors asks
\* for: per section the header, then every descriptor
RECURSIVE Calls(_)
Calls(o) ==
    IF o = <<>> THEN <<>>
    ELSE <<[title |-> Head(o).name, content |-> <<>>]>>
         \o Head(o).slides \o Calls(Tail(o))

RECURSIVE AddAll(_, _)
AddAll(p, calls) ==
    IF calls = <<>> THEN p
    ELSE AddAll(add_content_slide(p, Head(calls).title, Head(calls).content),
                Tail(calls))

\* C3: a descriptor that lacks 'title' or 'content' is logged and adds no
\* slide, and the document build_from_content produces is the one it produces
\* for the outline with the faulty descriptors taken out of the lists.
C3_FaultySkipped ==
    BuildDone =>
        /\ prs = AddAll(template, Calls(WithoutFaulty(outline)))
        /\ Len(errors) = CountFaulty(outline)

\* a faulty descriptor is followed by a well-formed one in its own section,
\* and a later section has a slide too
C3_Witness ==
    /\ BuildDone
    /\ Len(outline) = 2
    /\ Len(outline[1].slides) = 2
    /\ IsFaulty(outline[1].slides[1])
    /\ has_keys(outline[1].slides[2])
    /\ Len(outline[2].slides) = 1
    /\ has_keys(outline[2].slides[1])
    /\ errors # <<>>

\* the title and the body text of a slide built on the standard layout
TitleText(slide) == Text(slide.shapes[1])

BodyText(slide) == Text(slide.shapes[2])

RECURSIVE TitlesOfEvery(_)
TitlesOfEvery(slides) ==
    IF slides = <<>> THEN <<>>
    ELSE <<IF "title" \in DOMAIN Head(slides) THEN Head(slides).title
           ELSE <<>>>> \o TitlesOfEvery(Tail(slides))

\* what a slide of the outline is expected to show: its title, and whether it
\* is a section header
RECURSIVE Entries(_, _)
Entries(o, everyDescriptor) ==
    IF o = <<>> THEN <<>>
    ELSE LET ts == TitlesOfEvery(IF everyDescriptor THEN Head(o).slides
                                 ELSE WellFormed(Head(o).slides))
         IN  <<[title |-> Head(o).name, header |-> TRUE]>>
             \o [j \in 1..Len(ts) |-> [title |-> ts[j], header |-> FALSE]]
             \o Entries(Tail(o), everyDescriptor)

InOrder(entries) ==
    /\ SubSeq(prs, 1, Len(template)) = template
    /\ Len(Appended) = Len(entries)
    /\ \A n \in 1..Len(entries) :
          /\ TitleText(Appended[n]) = entries[n].title
          /\ entries[n].header => BodyText(Appended[n]) = <<>>

\* C7 as stated: the appended slides follow the template's slides and are,
\* section by section in mapping order, the section header (title = section
\* name, empty body) and then one slide per descriptor in list order.
C7_OrderEveryDescriptor == BuildDone => InOrder(Entries(outline, TRUE))

\* C7 as amended: the appended slides follow the template's slides and are,
\* section by section in mapping order, the section header (title = section
\* name, empty body) and then one slide per descriptor that has both keys,
\* in list order.
C7_Order == BuildDone => InOrder(Entries(outline, FALSE))

C7_Witness ==
    /\ BuildDone
    /\ Len(template) = 2
    /\ Len(outline) = 2
    /\ Len(WellFormed(outline[1].slides)) = 2
    /\ Len(WellFormed(outline[2].slides)) = 1
    /\ Len(Appended) = 5

-----------------------------------------------------------------------------
(* Properties of generate_ppt, checked under Spec *)

PartMissing == req.template.kind = "absent" \/ req.content.kind = "absent"

ErrorResponse == [status |-> 400, body |-> "error_json"]

\* C4: a request without the 'template' part or without the 'content' part is
\* answered 400 with a JSON error object; no temporary directory is created,
\* no file is saved and the builder is never constructed.
C4_MissingPart400 ==
    PartMissing =>
        /\ tmpdir = "none"
        /\ files = {}
        /\ ~builder
        /\ raised = "none"
        /\ hpc \in {"request", "respond", "done"}
        /\ hpc # "request" => response = ErrorResponse
        /\ sent <=> hpc = "done"

C4_Witness ==
    /\ req.template.kind = "absent"
    /\ req.content.kind = "json_object"
    /\ hpc = "done"
    /\ sent
    /\ response.status = 400

NotParseable == ~PartMissing /\ req.content.kind \in {"bad_utf8", "bad_json"}

\* C5: a request with both parts whose 'content' part is not parseable JSON is
\* answered 400 with a JSON error object; the template is never opened, the
\* builder is never invoked and no output document is written.
C5_InvalidJson400 ==
    NotParseable =>
        /\ ~builder
        /\ template = <<>>
        /\ prs = <<>>
        /\ "output.pptx" \notin files
        /\ hpc = "done" => response = ErrorResponse

\* C8: a request that gets past the presence check has its own temporary
\* directory; the directory is gone when the request is over, whatever the
\* exit path; and it is never released before the response that streams the
\* output file has been sent.
C8_TmpdirLifecycle ==
    ~PartMissing =>
        /\ hpc \notin {"request", "enter_with"} => tmpdir # "none"
        /\ hpc = "done" => tmpdir = "released" /\ files = {}
        /\ (tmpdir = "released" /\ response.status = 200) => sent

-----------------------------------------------------------------------------
(* add_content_slide called on a builder directly: inputs and actions *)

Idle ==
    /\ req = [template |-> [kind |-> "absent", doc |-> <<>>],
              content |-> [kind |-> "absent", value |-> <<>>]]
    /\ hpc = "none"
    /\ tmpdir = "none"
    /\ files = {}
    /\ response = NoResponse
    /\ sent = FALSE
    /\ raised = "none"
    /\ outline = <<>>
    /\ sec = 0
    /\ pos = 0
    /\ errors = <<>>

\* __init__ on an opened template, line 16-17
Opened(doc) ==
    /\ template = doc
    /\ prs = doc
    /\ builder = TRUE
    /\ pc = "call"

\* a call of add_content_slide with the pending arguments, lines 35-61
CallAddContentSlide ==
    /\ pc = "call"
    /\ prs' = add_content_slide(prs, title, content)
    /\ pc' = "returned"
    /\ UNCHANGED <<req, hpc, tmpdir, files, response, sent, raised, builder,
                   template, outline, sec, pos, errors, title, content>>

ShortTitle == <<"T", "1">>

CallTitles == {ShortTitle, <<"T", " ", "2">>}

CallContents == {<<>>, <<"x", NL, "y">>}

\* the caller picks the arguments of its next call
NextCall ==
    /\ pc = "returned"
    /\ Len(prs) - Len(template) < MaxCalls
    /\ \E t \in CallTitles, c \in CallContents :
          /\ title' = t
          /\ content' = c
    /\ pc' = "call"
    /\ UNCHANGED <<req, hpc, tmpdir, files, response, sent, raised, builder,
                   template, prs, outline, sec, pos, errors>>

\* titles of every length up to MaxTitleLen, in two character patterns
TitleAlphabets == {<<"a", "b", "c">>, <<"x", " ", NL, ".", "y">>}

TitleOfLen(n, abc) == [i \in 1..n |-> abc[(i % Len(abc)) + 1]]

Titles == {TitleOfLen(n, abc) : n \in 0..MaxTitleLen, abc \in TitleAlphabets}

InitTitle ==
    /\ Idle
    /\ Opened(TemplateDoc(1))
    /\ title \in Titles
    /\ content = <<"x", NL, "y">>

SpecTitle == InitTitle /\ [][CallAddContentSlide]_vars

ContentAlphabet == {"a", "b", " ", NL}

Contents == UNION {[1..n -> ContentAlphabet] : n \in 0..MaxContentLen}

InitBody ==
    /\ Idle
    /\ Opened(TemplateDoc(1))
    /\ title = ShortTitle
    /\ content \in Contents

SpecBody == InitBody /\ [][CallAddContentSlide]_vars

\* layouts: which placeholders add_slide gives a new slide, and in which order
Layouts == {<<>>, <<0>>, <<1>>, <<0, 1>>, <<1, 0>>, <<0, 1, 2>>, <<1, 0, 2>>,
            <<2, 1>>}

BaseShapes == {BaseTitle, BaseBody, Logo, Banner, Crest}

BaseShapeLists == UNION {[1..n -> BaseShapes] : n \in 0..MaxBaseShapes}

InitShapes ==
    /\ Idle
    /\ \E l \in Layouts, shapes \in BaseShapeLists :
          Opened(<<[layout |-> l, shapes |-> shapes]>>)
    /\ title \in CallTitles
    /\ content \in CallContents

NextShapes ==
    \/ CallAddContentSlide
    \/ NextCall

SpecShapes == InitShapes /\ [][NextShapes]_vars

-----------------------------------------------------------------------------
(* Properties of add_content_slide *)

LastSlide == prs[Len(prs)]

\* C2: the title placeholder's text is the title itself when the title has at
\* most 200 characters, and its first 197 characters followed by '...' when
\* it has more than 200.
C2_TitleTruncation ==
    pc = "returned" =>
        TitleText(LastSlide) =
            IF Len(title) <= TitleLimit THEN title
            ELSE Take(title, TitleKeep) \o Ellipsis

RECURSIVE StripEach(_)
StripEach(lines) ==
    IF lines = <<>> THEN <<>>
    ELSE <<Strip(Head(lines))>> \o StripEach(Tail(lines))

NotEmpty(line) == line # <<>>

\* the non-blank lines of c, each stripped, in their order
NonBlankLines(c) == SelectSeq(StripEach(Split(c, NL)), NotEmpty)

\* C6 as stated: the body's paragraphs are exactly the non-blank lines of the content,
\* stripped and in order; no paragraph of the body is empty.
C6_BodyParagraphs ==
    pc = "returned" =>
        /\ LastSlide.shapes[2].paras = NonBlankLines(content)
        /\ \A k \in 1..Len(LastSlide.shapes[2].paras) :
              Strip(LastSlide.shapes[2].paras[k]) # <<>>

\* C6 as amended: the body's paragraphs are the one empty paragraph that
\* clear() leaves, followed by exactly the non-blank lines of the content,
\* stripped and in order; no paragraph after the first is empty.
C6_BodyAfterClear ==
    pc = "returned" =>
        LET paras == LastSlide.shapes[2].paras
        IN  /\ paras = << <<>> >> \o NonBlankLines(content)
            /\ \A k \in 2..Len(paras) : Strip(paras[k]) # <<>>

C6_Witness ==
    /\ pc = "returned"
    /\ content = <<"a", NL, NL, "b">>
    /\ LastSlide.shapes[2].paras = << <<>>, <<"a">>, <<"b">> >>

Generated == {n \in 1..Len(prs) : n > Len(template)}

NotPlaceholder(shape) == ~is_placeholder(shape)

IsDecoration(shape) == shape.kind \notin {"group", "placeholder"}

\* C9: every generated slide holds, besides the placeholders of its layout, a
\* copy of each shape of the base slide that is neither a placeholder nor a
\* group, and nothing else; the template's slides, the base slide among
\* them, are as they were when the template was opened.
C9_DecorationsCopied ==
    /\ SubSeq(prs, 1, Len(template)) = template
    /\ \A n \in Generated :
          /\ SelectSeq(prs[n].shapes, NotPlaceholder)
                = SelectSeq(template[1].shapes, IsDecoration)
          /\ \A k \in 1..Len(prs[n].shapes) :
                /\ prs[n].shapes[k].kind # "group"
                /\ prs[n].shapes[k].name # "base"

C9_Witness ==
    /\ pc = "returned"
    /\ Len(prs) = Len(template) + 2
    /\ template[1].shapes = <<Crest, Logo>>
    /\ prs[3].shapes = prs[2].shapes
    /\ Logo \in {prs[3].shapes[k] : k \in 1..Len(prs[3].shapes)}

\* the shape-tree positions of the placeholders of a slide whose idx is not 0
BodyCandidates(slide) ==
    {k \in 1..Len(slide.shapes) :
        is_placeholder(slide.shapes[k]) /\ slide.shapes[k].idx # 0}

Max(S) == CHOOSE m \in S : \A k \in S : k <= m

\* C10: add_content_slide always adds one slide; on it the placeholder whose
\* idx is 0 gets the title, the last placeholder with another idx gets the
\* body, every other placeholder is left as add_slide made it, and a text
\* for which the layout has no placeholder appears nowhere.
C10_PlaceholderTargets ==
    [][(pc = "call" /\ pc' = "returned") =>
        LET slide == prs'[Len(prs')]
            body == BodyCandidates(slide)
        IN  /\ prs' = Append(prs, slide)
            /\ \A k \in 1..Len(slide.shapes) :
                  is_placeholder(slide.shapes[k]) =>
                     slide.shapes[k].paras =
                        IF slide.shapes[k].idx = 0
                        THEN Split(title, NL)
                        ELSE IF k = Max(body)
                        THEN << <<>> >> \o NonBlankLines(content)
                        ELSE << <<>> >>]_vars

C10_Witness ==
    /\ pc = "returned"
    /\ template[1].layout = <<1, 0, 2>>
    /\ content = <<"x", NL, "y">>
    /\ LastSlide.shapes[1].paras = << <<>> >>
    /\ LastSlide.shapes[2].paras = <<title>>
    /\ LastSlide.shapes[3].paras = << <<>>, <<"x">>, <<"y">> >>

====
